---- MODULE Spec2Model ----
(***************************************************************************)
(* Room / round state machine of instant-music (backend/apps/games).       *)
(*                                                                         *)
(* The database (PostgreSQL, READ COMMITTED, autocommit outside            *)
(* transaction.atomic) is the shared state.  Every HTTP request handler of *)
(* GameViewSet is a process that runs one database statement (or one       *)
(* transaction commit) per step and keeps the model objects it has read as *)
(* local copies; Model.save() writes the whole local copy back.            *)
(* Statements executed inside transaction.atomic become visible to other   *)
(* requests at commit, so the writes of one transaction are one step.      *)
(***************************************************************************)
EXTENDS Integers, Sequences, FiniteSets, Bags, TLC

-----------------------------------------------------------------------------
(* Bounds of the model *)

MaxUsers == 3
MaxRounds == 3
MaxRequests == 2
MaxInFlight == 2
MaxFaults == 1
MaxTime == 40
MaxDiff == 8
LineWords == 4

(* _generate_year_question: if year < 1950 or year > 2030: return None *)
MinYear == 1950
MaxYear == 2030

(* Room configuration used by the model (fields of Game) *)
RoomCapacity == 2

Users == 1..MaxUsers
Host == 1

(* GameMode *)
Modes == {"classique", "rapide", "generation", "paroles", "karaoke"}

(* the handlers of GameViewSet tell karaoke from every other mode and      *)
(* nothing else, and with the answers below check_answer gives the same    *)
(* result in every mode: the rooms of the model take one mode of each side *)
RoomModes == {"classique", "karaoke"}

(* the host-only endpoints compare request.user with game.host and nothing *)
(* else: they are called by the host or by one other user                  *)
Callers == {Host, Host + 1}

(* answers a client can send, and the correct_answer of every round; the   *)
(* rooms of the model use the default answer_mode "mcq"                    *)
AnswerTexts == {"2000", "abc", ""}
CorrectAnswer == "2000"

(* client-reported response times (seconds) *)
ResponseTimes == {5}

VARIABLES
    game,       \* the Game row
    players,    \* GamePlayer rows of the room: user -> row
    rounds,     \* GameRound rows of the room: round_number -> row
    answers,    \* GameAnswer rows in insertion order
    reqs,       \* bag of requests in flight (their position and local objects)
    events,     \* messages handed to channel_layer.group_send, in order
    last,       \* the HTTP response produced by the current step, if any
    clock,      \* timezone.now()
    budget,     \* number of requests that may still arrive
    users,      \* User rows: the statistics finish_game adds to
    calls,      \* user -> number of achievement_service.check_and_award calls
    faults,     \* number of collaborator failures that may still happen
    ev          \* the evaluation in progress of a scoring / generator function

vars == <<game, players, rounds, answers, reqs, events, last, clock, budget,
          ev, users, calls, faults>>

-----------------------------------------------------------------------------
(* Rows and local objects *)

NoGame == [status |-> "none", started_at |-> 0, finished_at |-> 0,
           mode |-> "none", playlist_id |-> FALSE, num_rounds |-> 0]

NoPlayer == [score |-> 0, rank |-> 0, is_connected |-> FALSE, joined_at |-> 0]

(* a row that is born with a rank *)
NewPlayer_Ranked(t) ==
    [score |-> 0, rank |-> 1, is_connected |-> TRUE, joined_at |-> t]

(* GamePlayer defaults; joined_at is auto_now_add; rank 0 stands for null *)
NewPlayer(t) ==
    [score |-> 0, rank |-> 0, is_connected |-> TRUE, joined_at |-> t]

NoRound == [started_at |-> 0, ended_at |-> 0]

(* the statistics of a User, counted from the creation of the room *)
NoStats == [total_games_played |-> 0, total_points |-> 0, total_wins |-> 0]

NoResp == [kind |-> "none", user |-> 0, code |-> 0, err |-> "",
           rn |-> 0, seen_status |-> "none", cnt |-> 0,
           dup |-> FALSE, reached |-> FALSE, pub_failed |-> FALSE,
           keys |-> {}, shown |-> {}]

(* no function of the scoring / generator services is being evaluated *)
NoEval == [fn |-> "none"]

EmptyFn == [x \in {} |-> NoPlayer]

NewReq(kind, u) ==
    [kind |-> kind, user |-> u, pc |-> "begin", g |-> NoGame, p |-> NoPlayer,
     rn |-> 0, rr |-> NoRound, is_correct |-> FALSE, points |-> 0,
     bonus |-> 0, cnt |-> 0, reached |-> FALSE, dup |-> FALSE,
     pubfail |-> FALSE, snap |-> EmptyFn]

(* GameRoundSerializer.Meta.fields *)
GameRoundSerializer_fields ==
    {"id", "game", "round_number", "track_id", "track_name", "artist_name",
     "options", "preview_url", "question_type", "question_text",
     "extra_data", "duration", "started_at", "ended_at"}

(* the keys of the message handed to group_send, those of the serialized   *)
(* round included                                                          *)
MessageKeys(type) ==
    CASE type = "round_started" ->
             {"round_data"} \cup GameRoundSerializer_fields
      [] type = "next_round" ->
             {"round_data", "updated_players"}
                \cup GameRoundSerializer_fields
      [] type = "round_ended" ->
             {"results", "correct_answer", "round_data", "player_scores",
              "updated_players"} \cup GameRoundSerializer_fields
      [] type \in {"player_joined", "player_left"} ->
             {"player", "game_data"}
      [] OTHER -> {"results"}

(* the keys of the body of a response, those of the serialized round       *)
(* included                                                                *)
ResponseKeys(kind, code, err) ==
    CASE kind = "start" /\ code = 200 ->
             {"game", "rounds_created", "first_round"}
                \cup GameRoundSerializer_fields
      [] kind = "current_round" /\ err = "current" ->
             {"current_round"} \cup GameRoundSerializer_fields
      [] kind = "current_round" /\ err = "next" ->
             {"current_round", "next_round"} \cup GameRoundSerializer_fields
      [] kind = "current_round" /\ err = "finished" ->
             {"current_round", "message"}
      [] kind = "end_round" /\ code = 200 /\ err = "" ->
             {"message", "correct_answer"}
      [] kind = "next_round" /\ code = 200 /\ err = "" ->
             GameRoundSerializer_fields
      [] kind = "results" /\ code = 200 ->
             {"game", "rankings", "rounds", "round_number", "track_name",
              "artist_name", "correct_answer", "track_id", "answers"}
      [] OTHER -> IF code \in {200, 201} THEN {} ELSE {"error"}

Resp(q, code, err) ==
    [kind |-> q.kind, user |-> q.user, code |-> code, err |-> err,
     rn |-> q.rn, seen_status |-> q.g.status, cnt |-> q.cnt,
     dup |-> q.dup, reached |-> q.reached, pub_failed |-> q.pubfail,
     keys |-> ResponseKeys(q.kind, code, err), shown |-> {}]

InFlight == BagToSet(reqs)

(* a request moves on / a request is answered *)
Goto(q, q2) == reqs' = (reqs (-) SetToBag({q})) (+) SetToBag({q2})
Done(q) == reqs' = reqs (-) SetToBag({q})
Spawn(q2) == reqs' = reqs (+) SetToBag({q2})

CanIssue == budget > 0 /\ BagCardinality(reqs) < MaxInFlight

Publish(type, rn) ==
    events' = Append(events,
                     [type |-> type, rn |-> rn, keys |-> MessageKeys(type)])

(* async_to_sync(channel_layer.group_send)(...): the message is published  *)
(* (ok), or the call raises                                                *)
GroupSend(type, rn, ok) ==
    IF ok THEN Publish(type, rn) /\ faults' = faults
    ELSE faults > 0 /\ faults' = faults - 1 /\ events' = events

-----------------------------------------------------------------------------
(* Queries *)

PlayerCount == Cardinality(DOMAIN players)

RoundNumbers == DOMAIN rounds

IsActive(row) == row.started_at # 0 /\ row.ended_at = 0

ActiveRounds == {n \in RoundNumbers : IsActive(rounds[n])}

PendingRounds == {n \in RoundNumbers : rounds[n].started_at = 0}

MinOf(S) == CHOOSE n \in S : \A m \in S : n <= m

(* GameService.get_current_round; 0 stands for None *)
get_current_round == IF ActiveRounds = {} THEN 0 ELSE MinOf(ActiveRounds)

(* the pending round of the highest number *)
get_next_round_Highest ==
    IF PendingRounds = {} THEN 0
    ELSE CHOOSE n \in PendingRounds : \A m \in PendingRounds : n >= m

(* GameService.get_next_round; 0 stands for None *)
get_next_round == IF PendingRounds = {} THEN 0 ELSE MinOf(PendingRounds)

AnswersOf(rn) == {i \in DOMAIN answers : answers[i].round = rn}

HasAnswered(rn, u) == \E i \in AnswersOf(rn) : answers[i].player = u

-----------------------------------------------------------------------------
(* a room as GameViewSet.create and sequential joins leave it: user u has  *)
(* joined at time u; num_rounds is one of counts                           *)
WaitingRoomOf(counts) ==
    /\ \E m \in RoomModes, pl \in BOOLEAN, c \in counts :
          game = [status |-> "waiting", started_at |-> 0, finished_at |-> 0,
                  mode |-> m, playlist_id |-> pl, num_rounds |-> c]
    /\ \E k \in 1..RoomCapacity :
          /\ players = [u \in 1..k |-> NewPlayer(u)]
          /\ clock = k
    /\ rounds = << >>
    /\ events = << >>

(* the rooms of the model are configured with MaxRounds rounds *)
WaitingRoom == WaitingRoomOf({MaxRounds})

(* such a room after the host's start request has run on its own *)
StartedRoom ==
    /\ \E k \in 1..RoomCapacity :
          /\ players = [u \in 1..k |-> NewPlayer(u)]
          /\ clock = k + 1
    /\ \E m \in RoomModes :
          /\ PlayerCount >= (IF m = "karaoke" THEN 1 ELSE 2)
          /\ game = [status |-> "in_progress", started_at |-> clock,
                     finished_at |-> 0, mode |-> m, playlist_id |-> TRUE,
                     num_rounds |-> MaxRounds]
    /\ \E n \in 1..MaxRounds :
          rounds = [i \in 1..n |->
                      IF i = 1 THEN [started_at |-> clock, ended_at |-> 0]
                      ELSE NoRound]
    /\ events = <<[type |-> "round_started", rn |-> 1,
                   keys |-> MessageKeys("round_started")]>>

NoRequest ==
    /\ answers = << >>
    /\ reqs = EmptyBag
    /\ last = NoResp
    /\ users = [u \in Users |-> NoStats]
    /\ calls = [u \in Users |-> 0]
    /\ ev = NoEval

InitRoom == (WaitingRoom \/ StartedRoom) /\ NoRequest

Init == InitRoom /\ budget = MaxRequests /\ faults = 0

(* the same rooms when up to MaxFaults collaborator calls raise *)
InitFaults == InitRoom /\ budget = MaxRequests /\ faults = MaxFaults

(* waiting rooms of every configured round count, 0 included: num_rounds   *)
(* is an IntegerField that no serializer validates                         *)
InitRounds ==
    /\ WaitingRoomOf(0..MaxRounds) /\ NoRequest
    /\ budget = MaxRequests /\ faults = 0

(* the same rooms with one more request to come *)
InitMore == InitRoom /\ budget = MaxRequests + 1 /\ faults = 0

-----------------------------------------------------------------------------
(* Responses *)

Respond(q, code, err) == Done(q) /\ last' = Resp(q, code, err)

(* a request answered by its first step never enters the bag *)
RespondAtOnce(q, code, err) == reqs' = reqs /\ last' = Resp(q, code, err)

Continue(q, q2) == Goto(q, q2) /\ last' = NoResp

Enter(q2) == Spawn(q2) /\ last' = NoResp

-----------------------------------------------------------------------------
(* GameViewSet.join *)

JoinBegin(u) ==
    /\ CanIssue
    /\ budget' = budget - 1
    /\ LET q == [NewReq("join", u) EXCEPT !.g = game] IN
         IF q.g.status # "waiting"
         THEN RespondAtOnce(q, 400, "already_started")
         ELSE Enter([q EXCEPT !.pc = "count"])
    /\ UNCHANGED <<game, players, rounds, answers, events, clock,
                   ev, users, calls, faults>>

JoinCount(q) ==
    /\ q.kind = "join" /\ q.pc = "count"
    /\ IF PlayerCount >= RoomCapacity
       THEN Respond(q, 400, "full")
       ELSE Continue(q, [q EXCEPT !.pc = "exists"])
    /\ UNCHANGED <<game, players, rounds, answers, events, clock, budget,
                   ev, users, calls, faults>>

JoinExists(q) ==
    /\ q.kind = "join" /\ q.pc = "exists"
    /\ IF q.user \in DOMAIN players
       THEN Respond(q, 400, "already_joined")
       ELSE Continue(q, [q EXCEPT !.pc = "create"])
    /\ UNCHANGED <<game, players, rounds, answers, events, clock, budget,
                   ev, users, calls, faults>>

(* the insert without the unique constraint *)
PlayerUniqueViolation_Unchecked(u) == FALSE

(* unique_together (game, user) of GamePlayer *)
PlayerUniqueViolation(u) == u \in DOMAIN players

JoinCreate(q) ==
    /\ q.kind = "join" /\ q.pc = "create"
    /\ IF PlayerUniqueViolation(q.user)
       THEN /\ Respond(q, 500, "integrity_error")
            /\ UNCHANGED <<players, events, clock, faults>>
       ELSE /\ clock' = clock + 1
            /\ players' = [u \in DOMAIN players \cup {q.user} |->
                              IF u = q.user THEN NewPlayer(clock')
                              ELSE players[u]]
            /\ \E ok \in BOOLEAN :
                  /\ GroupSend("player_joined", 0, ok)
                  /\ IF ok THEN Respond(q, 201, "")
                     ELSE Respond([q EXCEPT !.pubfail = TRUE], 500,
                                  "broadcast_error")
    /\ UNCHANGED <<game, rounds, answers, budget,
                   ev, users, calls>>

-----------------------------------------------------------------------------
(* GameViewSet.create *)

(* no room yet *)
InitNone ==
    /\ game = NoGame
    /\ players = EmptyFn
    /\ rounds = << >>
    /\ events = << >>
    /\ clock = 0
    /\ NoRequest
    /\ budget = MaxRequests /\ faults = 0

(* CreateGameSerializer.validate: karaoke needs a karaoke_track, every     *)
(* other mode a playlist_id                                                *)
CreateIsValid(mode, playlist, track) ==
    IF mode = "karaoke" THEN track ELSE playlist

(* the request data either fail the validation (400) or the Game row is    *)
(* saved with the model defaults and the host is added as a player         *)
Create ==
    /\ game = NoGame
    /\ \E m \in RoomModes, pl \in BOOLEAN, tr \in BOOLEAN :
          IF CreateIsValid(m, pl, tr)
          THEN /\ clock' = clock + 1
               /\ game' = [status |-> "waiting", started_at |-> 0,
                           finished_at |-> 0, mode |-> m,
                           playlist_id |-> pl, num_rounds |-> MaxRounds]
               /\ players' = [u \in {Host} |-> NewPlayer(clock')]
               /\ last' = [NoResp EXCEPT !.kind = "create", !.user = Host,
                                         !.code = 201]
          ELSE /\ last' = [NoResp EXCEPT !.kind = "create", !.user = Host,
                                         !.code = 400, !.err = "invalid"]
               /\ UNCHANGED <<game, players, clock>>
    /\ UNCHANGED <<rounds, answers, reqs, events, budget,
                   ev, users, calls, faults>>

-----------------------------------------------------------------------------
(* finish_game holds the row lock of the Game row from game.save() on *)
GameRowLocked == \E q \in InFlight : q.pc = "finish_commit"

(* Game.status written through the inherited update endpoint / the admin:  *)
(* the only such write modelled is the cancellation of a waiting room.     *)

Cancel ==
    /\ CanIssue
    /\ budget' = budget - 1
    /\ game.status = "waiting"
    /\ ~GameRowLocked
    /\ game' = [game EXCEPT !.status = "cancelled"]
    /\ last' = [NoResp EXCEPT !.kind = "cancel", !.code = 200]
    /\ UNCHANGED <<players, rounds, answers, reqs, events, clock,
                   ev, users, calls, faults>>

-----------------------------------------------------------------------------
(* GameViewSet.start and GameService.start_game *)

(* the minimum without the karaoke exception *)
MinPlayers_AlwaysTwo(mode) == 2

(* views.py: min_players = 1 if game.mode == 'karaoke' else 2 *)
MinPlayers(mode) == IF mode = "karaoke" THEN 1 ELSE 2

(* views.py: playlist needed unless karaoke *)
ViewNeedsPlaylist(g) == g.mode # "karaoke" /\ ~g.playlist_id

(* views.py: "If game is already in progress, return the existing data" *)
StartReturnsExisting(g) == g.status = "in_progress"

(* start_game without its status check *)
StartGameStatusError_Unchecked(g) == FALSE

(* services.py start_game: if game.status != GameStatus.WAITING: raise *)
StartGameStatusError(g) == g.status # "waiting"

(* start_game: num_rounds = game.num_rounds or 10 *)
DefaultRounds == 10

EffectiveRounds(g) == IF g.num_rounds = 0 THEN DefaultRounds ELSE g.num_rounds

Min(a, b) == IF a <= b THEN a ELSE b

(* generate_questions stops at num_questions questions; a playlist of the  *)
(* model yields at most MaxRounds of them                                  *)
Questions(g) == 0..Min(EffectiveRounds(g), MaxRounds)

(* unique_together (game, round_number) of GameRound *)
RoundUniqueViolation(k) == (1..k) \cap RoundNumbers # {}

StartBegin(u) ==
    /\ CanIssue
    /\ budget' = budget - 1
    /\ LET q == [NewReq("start", u) EXCEPT !.g = game] IN
         IF u # Host
         THEN RespondAtOnce(q, 403, "not_host")
         ELSE IF StartReturnsExisting(q.g)
         THEN RespondAtOnce(q, 200, "existing")
         ELSE Enter([q EXCEPT !.pc = "count"])
    /\ UNCHANGED <<game, players, rounds, answers, events, clock,
                   ev, users, calls, faults>>

StartCount(q) ==
    /\ q.kind = "start" /\ q.pc = "count"
    /\ LET q2 == [q EXCEPT !.cnt = PlayerCount] IN
         IF q2.cnt < MinPlayers(q.g.mode)
         THEN Respond(q2, 400, "insufficient_players")
         ELSE IF ViewNeedsPlaylist(q.g)
         THEN Respond(q2, 400, "missing_playlist")
         ELSE Continue(q, [q2 EXCEPT !.pc = "start_game"])
    /\ UNCHANGED <<game, players, rounds, answers, events, clock, budget,
                   ev, users, calls, faults>>

(* the rows of GameRound after GameRound.objects.create raised on its j-th *)
(* call, had each statement been committed on its own                      *)
RoundsAfterError_Autocommit(j) ==
    [i \in RoundNumbers \cup (1..(j - 1)) |->
        IF i \in RoundNumbers THEN rounds[i] ELSE NoRound]

(* @transaction.atomic on start_game: the rows created before the          *)
(* exception are rolled back                                               *)
RoundsAfterError(j) == rounds

(* the transaction of start_game; n is the number of questions that        *)
(* generate_questions returned (0: none, or the track fetch raised), k the *)
(* length of all_questions[:num_rounds] and j the call of                  *)
(* GameRound.objects.create on which the database raises, if it does       *)
StartGame(q) ==
    /\ q.kind = "start" /\ q.pc = "start_game"
    /\ \/ /\ StartGameStatusError(q.g)
          /\ Respond(q, 400, "not_waiting")
          /\ UNCHANGED <<game, rounds, clock, faults>>
       \/ /\ ~StartGameStatusError(q.g)
          /\ ~q.g.playlist_id
          /\ Respond(q, 400, "missing_playlist")
          /\ UNCHANGED <<game, rounds, clock, faults>>
       \/ /\ ~StartGameStatusError(q.g)
          /\ q.g.playlist_id
          /\ ~GameRowLocked
          /\ \E n \in Questions(q.g) :
              LET k == Min(n, EffectiveRounds(q.g)) IN
                IF k = 0
                THEN /\ Respond(q, 400, "generation_failed")
                     /\ UNCHANGED <<game, rounds, clock, faults>>
                ELSE IF RoundUniqueViolation(k)
                THEN /\ Respond(q, 500, "integrity_error")
                     /\ UNCHANGED <<game, rounds, clock, faults>>
                ELSE \/ /\ clock' = clock + 1
                        /\ rounds' = [i \in 1..k |->
                               IF i = 1
                               THEN [started_at |-> clock', ended_at |-> 0]
                               ELSE NoRound]
                        /\ game' = [q.g EXCEPT !.status = "in_progress",
                                               !.started_at = clock']
                        /\ Continue(q, [q EXCEPT !.pc = "publish", !.rn = 1])
                        /\ faults' = faults
                     \/ /\ faults > 0
                        /\ faults' = faults - 1
                        /\ \E j \in 1..k : rounds' = RoundsAfterError(j)
                        /\ Respond(q, 500, "database_error")
                        /\ UNCHANGED <<game, clock>>
    /\ UNCHANGED <<players, answers, events, budget, ev, users, calls>>

StartPublish(q) ==
    /\ q.kind = "start" /\ q.pc = "publish"
    /\ \E ok \in BOOLEAN :
          /\ GroupSend("round_started", q.rn, ok)
          /\ IF ok THEN Respond(q, 200, "")
             ELSE Respond([q EXCEPT !.pubfail = TRUE], 500,
                          "broadcast_error")
    /\ UNCHANGED <<game, players, rounds, answers, clock, budget,
                   ev, users, calls>>

-----------------------------------------------------------------------------
(* Scoring: GameService.check_answer (MCQ branch) and calculate_score      *)

(* the years of the model: the correct years and every year within        *)
(* MaxDiff of one of them                                                  *)
CorrectYears == {MinYear, 2000, MaxYear}

Years == (MinYear - MaxDiff)..(MaxYear + MaxDiff)

(* int(answer) for the texts of the model: str(int) is ToString, blanks    *)
(* around the digits are skipped; -1 stands for ValueError                 *)
IntOf(text) ==
    IF \E y \in Years : ToString(y) = text
    THEN CHOOSE y \in Years : ToString(y) = text
    ELSE IF text = " 2000" THEN 2000 ELSE -1

Abs(x) == IF x < 0 THEN -x ELSE x

(* the year branch with the 0.75 band one year wider *)
check_answer_WideBand(game_mode, answer, correct_answer) ==
    IF game_mode = "generation"
    THEN IF IntOf(answer) < 0 \/ IntOf(correct_answer) < 0
         THEN <<FALSE, 0>>
         ELSE LET diff == Abs(IntOf(answer) - IntOf(correct_answer)) IN
                CASE diff = 0 -> <<TRUE, 100>>
                  [] diff # 0 /\ diff <= 3 -> <<TRUE, 75>>
                  [] diff > 3 /\ diff <= 5 -> <<TRUE, 40>>
                  [] OTHER -> <<FALSE, 0>>
    ELSE IF answer = correct_answer THEN <<TRUE, 100>> ELSE <<FALSE, 0>>

(* check_answer: <<is_correct, accuracy factor in hundredths>>; the rounds *)
(* of the model have the default answer_mode "mcq"                         *)
check_answer(game_mode, answer, correct_answer) ==
    IF game_mode = "generation"
    THEN IF IntOf(answer) < 0 \/ IntOf(correct_answer) < 0
         THEN <<FALSE, 0>>
         ELSE LET diff == Abs(IntOf(answer) - IntOf(correct_answer)) IN
                CASE diff = 0 -> <<TRUE, 100>>
                  [] diff # 0 /\ diff <= 2 -> <<TRUE, 75>>
                  [] diff > 2 /\ diff <= 5 -> <<TRUE, 40>>
                  [] OTHER -> <<FALSE, 0>>
    ELSE IF answer = correct_answer THEN <<TRUE, 100>> ELSE <<FALSE, 0>>

Max(a, b) == IF a >= b THEN a ELSE b

(* int(n / d): the fraction is dropped, towards zero *)
int(n, d) == IF n >= 0 THEN n \div d ELSE -((-n) \div d)

(* the calculation without the floor of 10 of the raw points *)
calculate_score_NoFloor(factor, response_time) ==
    IF factor <= 0 THEN 0
    ELSE Max(5, int((100 - int(response_time * 3, 1)) * factor, 100))

(* raw = max(10, 100 - int(response_time * 3)); max(5, int(raw * factor)); *)
(* response_time is a whole number of seconds                              *)
calculate_score(factor, response_time) ==
    IF factor <= 0 THEN 0
    ELSE Max(5, int(Max(10, 100 - int(response_time * 3, 1)) * factor, 100))

(* +10 for 1st correct, +5 for 2nd, +2 for 3rd *)
RankBonus(correct_before) ==
    CASE correct_before = 0 -> 10
      [] correct_before = 1 -> 5
      [] correct_before = 2 -> 2
      [] OTHER -> 0

CorrectAnswersOf(rn) == {i \in AnswersOf(rn) : answers[i].is_correct}

(* the insert without the unique constraint *)
AnswerUniqueViolation_Unchecked(rn, u) == FALSE

(* unique_together (round, player) of GameAnswer *)
AnswerUniqueViolation(rn, u) == HasAnswered(rn, u)

(* views.py: if answered_players >= total_players *)
AllAnswered(answered, total) == answered >= total

-----------------------------------------------------------------------------
(* GameViewSet.answer and GameService.submit_answer *)

AnswerBegin(u) ==
    /\ CanIssue
    /\ budget' = budget - 1
    /\ LET q == NewReq("answer", u) IN
         IF u \notin DOMAIN players
         THEN RespondAtOnce(q, 403, "not_in_game")
         ELSE Enter([q EXCEPT !.p = players[u], !.pc = "current"])
    /\ UNCHANGED <<game, players, rounds, answers, events, clock,
                   ev, users, calls, faults>>

AnswerCurrent(q) ==
    /\ q.kind = "answer" /\ q.pc = "current"
    /\ LET rn == get_current_round IN
         IF rn = 0
         THEN Respond(q, 400, "no_active_round")
         ELSE Continue(q, [q EXCEPT !.rn = rn, !.rr = rounds[rn],
                                    !.pc = "precheck"])
    /\ UNCHANGED <<game, players, rounds, answers, events, clock, budget,
                   ev, users, calls, faults>>

(* the "already answered" pre-check, then the request data *)
AnswerPrecheck(q) ==
    /\ q.kind = "answer" /\ q.pc = "precheck"
    /\ IF HasAnswered(q.rn, q.user)
       THEN Respond([q EXCEPT !.dup = TRUE], 400, "already_answered")
       ELSE \E text \in AnswerTexts, t \in ResponseTimes :
              IF text = ""
              THEN Respond(q, 400, "no_answer")
              ELSE LET res == check_answer(game.mode, text, CorrectAnswer)
                       pts == calculate_score(res[2], t)
                   IN  Continue(q, [q EXCEPT !.is_correct = res[1],
                          !.points = pts,
                          !.pc = IF res[1] THEN "count_correct" ELSE "insert"])
    /\ UNCHANGED <<game, players, rounds, answers, events, clock, budget,
                   ev, users, calls, faults>>

AnswerCountCorrect(q) ==
    /\ q.kind = "answer" /\ q.pc = "count_correct"
    /\ LET b == RankBonus(Cardinality(CorrectAnswersOf(q.rn))) IN
         Continue(q, [q EXCEPT !.bonus = b, !.points = q.points + b,
                               !.pc = "insert"])
    /\ UNCHANGED <<game, players, rounds, answers, events, clock, budget,
                   ev, users, calls, faults>>

(* GameAnswer.objects.create, player.save(), commit *)
AnswerInsert(q) ==
    /\ q.kind = "answer" /\ q.pc = "insert"
    /\ IF AnswerUniqueViolation(q.rn, q.user)
       THEN /\ Respond([q EXCEPT !.dup = TRUE], 500, "integrity_error")
            /\ UNCHANGED <<answers, players>>
       ELSE /\ answers' = Append(answers,
                   [round |-> q.rn, player |-> q.user,
                    is_correct |-> q.is_correct, points_earned |-> q.points,
                    rank_bonus |-> q.bonus])
            /\ players' = [players EXCEPT ![q.user] =
                   [q.p EXCEPT !.score = q.p.score + q.points]]
            /\ Continue(q, [q EXCEPT !.pc = "check_all",
                   !.reached = /\ IsActive(rounds[q.rn])
                               /\ Cardinality(AnswersOf(q.rn)) + 1 = PlayerCount])
    /\ UNCHANGED <<game, rounds, events, clock, budget,
                   ev, users, calls, faults>>

(* count players and answers; auto-end: round_obj.ended_at = now; save() *)
AnswerCheckAll(q) ==
    /\ q.kind = "answer" /\ q.pc = "check_all"
    /\ IF AllAnswered(Cardinality(AnswersOf(q.rn)), PlayerCount)
       THEN /\ clock' = clock + 1
            /\ rounds' = [rounds EXCEPT ![q.rn] =
                             [q.rr EXCEPT !.ended_at = clock']]
            /\ Continue(q, [q EXCEPT !.pc = "publish"])
       ELSE /\ Respond(q, 201, "")
            /\ UNCHANGED <<rounds, clock>>
    /\ UNCHANGED <<game, players, answers, events, budget,
                   ev, users, calls, faults>>

AnswerPublish(q) ==
    /\ q.kind = "answer" /\ q.pc = "publish"
    /\ \E ok \in BOOLEAN :
          /\ GroupSend("round_ended", q.rn, ok)
          /\ IF ok THEN Respond(q, 201, "")
             ELSE Respond([q EXCEPT !.pubfail = TRUE], 500,
                          "broadcast_error")
    /\ UNCHANGED <<game, players, rounds, answers, clock, budget,
                   ev, users, calls>>

-----------------------------------------------------------------------------
(* GameViewSet.end_current_round and GameService.end_round *)

EndRoundBegin(u) ==
    /\ CanIssue
    /\ budget' = budget - 1
    /\ LET q == [NewReq("end_round", u) EXCEPT !.g = game]
           rn == get_current_round
       IN  IF u # Host
           THEN RespondAtOnce(q, 403, "not_host")
           ELSE IF rn = 0
           THEN RespondAtOnce(q, 400, "no_active_round")
           ELSE IF rounds[rn].ended_at # 0
           THEN RespondAtOnce([q EXCEPT !.rn = rn], 200, "already_ended")
           ELSE Enter([q EXCEPT !.rn = rn, !.rr = rounds[rn], !.pc = "end"])
    /\ UNCHANGED <<game, players, rounds, answers, events, clock,
                   ev, users, calls, faults>>

(* end_round: round_obj.ended_at = now; round_obj.save() *)
EndRoundSave(q) ==
    /\ q.kind \in {"end_round", "next_round"} /\ q.pc = "end"
    /\ clock' = clock + 1
    /\ rounds' = [rounds EXCEPT ![q.rn] = [q.rr EXCEPT !.ended_at = clock']]
    /\ Continue(q, [q EXCEPT !.pc = "publish_end"])
    /\ UNCHANGED <<game, players, answers, events, budget,
                   ev, users, calls, faults>>

EndRoundPublish(q) ==
    /\ q.kind = "end_round" /\ q.pc = "publish_end"
    /\ \E ok \in BOOLEAN :
          /\ GroupSend("round_ended", q.rn, ok)
          /\ IF ok THEN Respond(q, 200, "")
             ELSE Respond([q EXCEPT !.pubfail = TRUE], 500,
                          "broadcast_error")
    /\ UNCHANGED <<game, players, rounds, answers, clock, budget,
                   ev, users, calls>>

-----------------------------------------------------------------------------
(* GameViewSet.next_round, GameService.start_round and finish_game *)

(* enumerate(game.players.order_by("-score"), start=1): the positions of   *)
(* players with equal score are whatever order the database returns        *)
Rankings(snap) ==
    {rk \in [DOMAIN snap -> 1..Cardinality(DOMAIN snap)] :
        /\ \A u, v \in DOMAIN snap : u # v => rk[u] # rk[v]
        /\ \A u, v \in DOMAIN snap :
              snap[u].score > snap[v].score => rk[u] < rk[v]}

NextRoundBegin(u) ==
    /\ CanIssue
    /\ budget' = budget - 1
    /\ LET q == [NewReq("next_round", u) EXCEPT !.g = game] IN
         IF u # Host
         THEN RespondAtOnce(q, 403, "not_host")
         ELSE Enter([q EXCEPT !.pc = "current"])
    /\ UNCHANGED <<game, players, rounds, answers, events, clock,
                   ev, users, calls, faults>>

NextRoundCurrent(q) ==
    /\ q.kind = "next_round" /\ q.pc = "current"
    /\ LET rn == get_current_round IN
         IF rn = 0
         THEN Continue(q, [q EXCEPT !.pc = "next"])
         ELSE Continue(q, [q EXCEPT !.rn = rn, !.rr = rounds[rn],
                                    !.pc = "end"])
    /\ UNCHANGED <<game, players, rounds, answers, events, clock, budget,
                   ev, users, calls, faults>>

(* the round_ended broadcast of next_round is inside try / except Exception *)
NextRoundPublishEnd(q) ==
    /\ q.kind = "next_round" /\ q.pc = "publish_end"
    /\ \E ok \in BOOLEAN :
          /\ GroupSend("round_ended", q.rn, ok)
          /\ Continue(q, [q EXCEPT !.pubfail = ~ok, !.pc = "next"])
    /\ UNCHANGED <<game, players, rounds, answers, clock, budget,
                   ev, users, calls>>

NextRoundNext(q) ==
    /\ q.kind = "next_round" /\ q.pc = "next"
    /\ LET nx == get_next_round IN
         IF nx = 0
         THEN Continue(q, [q EXCEPT !.rn = 0, !.rr = NoRound,
                                    !.pc = "finish"])
         ELSE Continue(q, [q EXCEPT !.rn = nx, !.rr = rounds[nx],
                                    !.pc = "start_round"])
    /\ UNCHANGED <<game, players, rounds, answers, events, clock, budget,
                   ev, users, calls, faults>>

(* finish_game: game.save() takes the row lock, then the players are read *)
FinishRead(q) ==
    /\ q.kind = "next_round" /\ q.pc = "finish"
    /\ ~GameRowLocked
    /\ Continue(q, [q EXCEPT !.snap = players, !.pc = "finish_commit"])
    /\ UNCHANGED <<game, players, rounds, answers, events, clock, budget,
                   ev, users, calls, faults>>

(* finish_game from the read of the players to the commit: ranks, user     *)
(* statistics and one check_and_award call per player in rank order.  An   *)
(* exception of check_and_award for player f leaves the transaction.atomic *)
(* block of finish_game, which rolls everything back, and the view.        *)
FinishCommit(q) ==
    /\ q.kind = "next_round" /\ q.pc = "finish_commit"
    /\ \E rk \in Rankings(q.snap) :
          \/ /\ clock' = clock + 1
             /\ game' = [q.g EXCEPT !.status = "finished",
                                    !.finished_at = clock']
             /\ players' = [u \in DOMAIN players |->
                               IF u \in DOMAIN q.snap
                               THEN [q.snap[u] EXCEPT !.rank = rk[u]]
                               ELSE players[u]]
             /\ users' = [u \in Users |->
                             IF u \in DOMAIN q.snap
                             THEN [total_games_played |->
                                       users[u].total_games_played + 1,
                                   total_points |->
                                       users[u].total_points + q.snap[u].score,
                                   total_wins |->
                                       users[u].total_wins
                                         + (IF rk[u] = 1 THEN 1 ELSE 0)]
                             ELSE users[u]]
             /\ calls' = [u \in Users |->
                             IF u \in DOMAIN q.snap THEN calls[u] + 1
                             ELSE calls[u]]
             /\ Continue(q, [q EXCEPT !.snap = EmptyFn,
                                      !.pc = "publish_finish"])
             /\ UNCHANGED faults
          \/ /\ faults > 0
             /\ faults' = faults - 1
             /\ \E f \in DOMAIN q.snap :
                   calls' = [u \in Users |->
                               IF u \in DOMAIN q.snap /\ rk[u] <= rk[f]
                               THEN calls[u] + 1 ELSE calls[u]]
             /\ Respond(q, 500, "achievement_error")
             /\ UNCHANGED <<game, players, users, clock>>
    /\ UNCHANGED <<rounds, answers, events, budget, ev>>

FinishPublish(q) ==
    /\ q.kind = "next_round" /\ q.pc = "publish_finish"
    /\ \E ok \in BOOLEAN :
          /\ GroupSend("game_finished", 0, ok)
          /\ IF ok THEN Respond(q, 200, "finished")
             ELSE Respond([q EXCEPT !.pubfail = TRUE], 500,
                          "broadcast_error")
    /\ UNCHANGED <<game, players, rounds, answers, clock, budget,
                   ev, users, calls>>

(* start_round: round_obj.started_at = now; round_obj.save() *)
StartRound(q) ==
    /\ q.kind = "next_round" /\ q.pc = "start_round"
    /\ clock' = clock + 1
    /\ rounds' = [rounds EXCEPT ![q.rn] = [q.rr EXCEPT !.started_at = clock']]
    /\ Continue(q, [q EXCEPT !.pc = "publish_next"])
    /\ UNCHANGED <<game, players, answers, events, budget,
                   ev, users, calls, faults>>

NextRoundPublish(q) ==
    /\ q.kind = "next_round" /\ q.pc = "publish_next"
    /\ \E ok \in BOOLEAN :
          /\ GroupSend("next_round", q.rn, ok)
          /\ IF ok THEN Respond(q, 200, "")
             ELSE Respond([q EXCEPT !.pubfail = TRUE], 500,
                          "broadcast_error")
    /\ UNCHANGED <<game, players, rounds, answers, clock, budget,
                   ev, users, calls>>

-----------------------------------------------------------------------------
(* GameConsumer.connect and GameConsumer.disconnect *)

(* _set_player_connected: GamePlayer.objects.get(game, user), then         *)
(* save(update_fields=['is_connected']); no row: ignore                    *)
SetPlayerConnected(u, connected) ==
    players' = IF u \in DOMAIN players
               THEN [players EXCEPT ![u].is_connected = connected]
               ELSE players

Session(kind, u, connected, type) ==
    /\ CanIssue
    /\ budget' = budget - 1
    /\ SetPlayerConnected(u, connected)
    /\ \E ok \in BOOLEAN :
          /\ GroupSend(type, 0, ok)
          /\ last' = [NoResp EXCEPT !.kind = kind, !.user = u,
                                    !.pub_failed = ~ok]
    /\ UNCHANGED <<game, rounds, answers, reqs, clock, ev, users, calls>>

Connect(u) == Session("connect", u, TRUE, "player_joined")

Disconnect(u) == Session("disconnect", u, FALSE, "player_left")

-----------------------------------------------------------------------------
(* GameViewSet.current_round and GameViewSet.results (GET) *)

CurrentRound(u) ==
    /\ CanIssue
    /\ budget' = budget - 1
    /\ LET q == NewReq("current_round", u)
           cur == get_current_round
           nx == get_next_round
       IN  IF u \notin DOMAIN players
           THEN RespondAtOnce(q, 403, "not_in_game")
           ELSE IF cur # 0
           THEN RespondAtOnce([q EXCEPT !.rn = cur], 200, "current")
           ELSE IF nx # 0
           THEN RespondAtOnce([q EXCEPT !.rn = nx], 200, "next")
           ELSE RespondAtOnce(q, 200, "finished")
    /\ UNCHANGED <<game, players, rounds, answers, events, clock,
                   ev, users, calls, faults>>

(* the per-round breakdown lists every round of the room *)
Results(u) ==
    /\ CanIssue
    /\ budget' = budget - 1
    /\ reqs' = reqs
    /\ LET q == NewReq("results", u) IN
         IF u \notin DOMAIN players
         THEN last' = Resp(q, 403, "not_in_game")
         ELSE last' = [Resp(q, 200, "") EXCEPT !.shown = RoundNumbers]
    /\ UNCHANGED <<game, players, rounds, answers, events, clock,
                   ev, users, calls, faults>>

-----------------------------------------------------------------------------
(* the request handlers of GameViewSet *)
JoinSteps ==
    \/ \E u \in Users : JoinBegin(u)
    \/ \E q \in InFlight : JoinCount(q)
    \/ \E q \in InFlight : JoinExists(q)
    \/ \E q \in InFlight : JoinCreate(q)

StartSteps ==
    \/ \E u \in Callers : StartBegin(u)
    \/ \E q \in InFlight : StartCount(q)
    \/ \E q \in InFlight : StartGame(q)
    \/ \E q \in InFlight : StartPublish(q)

AnswerSteps ==
    \/ \E u \in Users : AnswerBegin(u)
    \/ \E q \in InFlight : AnswerCurrent(q)
    \/ \E q \in InFlight : AnswerPrecheck(q)
    \/ \E q \in InFlight : AnswerCountCorrect(q)
    \/ \E q \in InFlight : AnswerInsert(q)
    \/ \E q \in InFlight : AnswerCheckAll(q)
    \/ \E q \in InFlight : AnswerPublish(q)

EndRoundSteps ==
    \/ \E u \in Callers : EndRoundBegin(u)
    \/ \E q \in InFlight : EndRoundSave(q)
    \/ \E q \in InFlight : EndRoundPublish(q)

NextRoundSteps ==
    \/ \E u \in Callers : NextRoundBegin(u)
    \/ \E q \in InFlight : NextRoundCurrent(q)
    \/ \E q \in InFlight : EndRoundSave(q)
    \/ \E q \in InFlight : NextRoundPublishEnd(q)
    \/ \E q \in InFlight : NextRoundNext(q)
    \/ \E q \in InFlight : FinishRead(q)
    \/ \E q \in InFlight : FinishCommit(q)
    \/ \E q \in InFlight : FinishPublish(q)
    \/ \E q \in InFlight : StartRound(q)
    \/ \E q \in InFlight : NextRoundPublish(q)

NextSrc ==
    \/ JoinSteps
    \/ StartSteps
    \/ AnswerSteps
    \/ EndRoundSteps
    \/ NextRoundSteps

Next == NextSrc \/ Cancel

Spec == Init /\ [][Next]_vars

(* the same rooms when nobody ever cancels one *)
SpecSrc == Init /\ [][NextSrc]_vars

SpecMore == InitMore /\ [][Next]_vars

(* the handlers and the two queries *)
NextQueries ==
    \/ NextSrc
    \/ \E u \in Users : CurrentRound(u)
    \/ \E u \in Users : Results(u)

SpecQueries == Init /\ [][NextQueries]_vars

(* the handlers that write Player rows and the websocket sessions of the   *)
(* users                                                                   *)
NextSessions ==
    \/ JoinSteps
    \/ AnswerSteps
    \/ NextRoundSteps
    \/ \E u \in Users : Connect(u)
    \/ \E u \in Users : Disconnect(u)

SpecSessions == Init /\ [][NextSessions]_vars

(* the handlers from the creation of the room on *)
NextCreate == Create \/ (game # NoGame /\ Next)

SpecCreate == InitNone /\ [][NextCreate]_vars

(* rooms of every configured round count *)
SpecRounds == InitRounds /\ [][Next]_vars

(* the same rooms when a collaborator (the channel layer, the achievement  *)
(* service) may raise                                                      *)
SpecFaults == InitFaults /\ [][Next]_vars

(* waiting rooms of every configured round count when a collaborator may   *)
(* raise                                                                   *)
InitStart ==
    /\ WaitingRoomOf(0..MaxRounds) /\ NoRequest
    /\ budget = MaxRequests /\ faults = MaxFaults

(* start requests racing with one another, with joins and with cancel      *)
NextStart == StartSteps \/ JoinSteps \/ Cancel

SpecStart == InitStart /\ [][NextStart]_vars

-----------------------------------------------------------------------------
(* The scoring functions of GameService on their own: the inputs are drawn *)
(* by the initial state and one action evaluates each function             *)

(* no room: the scoring and generator functions read no row *)
NoRoom ==
    /\ game = NoGame
    /\ players = EmptyFn
    /\ rounds = << >>
    /\ events = << >>
    /\ clock = 0
    /\ budget = 0
    /\ faults = 0
    /\ answers = << >>
    /\ reqs = EmptyBag
    /\ last = NoResp
    /\ users = [u \in Users |-> NoStats]
    /\ calls = [u \in Users |-> 0]

RoomUnchanged ==
    UNCHANGED <<game, players, rounds, answers, reqs, events, last, clock,
                budget, users, calls, faults>>

(* answers sent to check_answer: every year of the model as str(year), a   *)
(* year padded with a blank (int() accepts it) and texts int() rejects     *)
GivenTexts == {ToString(y) : y \in Years} \cup {" 2000", "abc", "2000.0", ""}

CorrectTexts == {ToString(y) : y \in CorrectYears} \cup {"abc"}

(* accuracy factors in hundredths: those check_answer returns (0, 0.4,     *)
(* 0.75, 1.0, 2.0), two similarities of fuzzy_match, and a negative one    *)
Factors == {-100, 0, 40, 75, 80, 93, 100, 200}

Times == 0..MaxTime

(* GameService.submit_answer on a player of score `score` when             *)
(* correct_before correct answers of the round are persisted               *)
submit_answer(score, correct_before, game_mode, answer, correct_answer, t) ==
    LET res == check_answer(game_mode, answer, correct_answer)
        points == calculate_score(res[2], t)
        rank_bonus == IF res[1] THEN RankBonus(correct_before) ELSE 0
    IN  [is_correct |-> res[1],
         points_earned |-> points + rank_bonus,
         rank_bonus |-> rank_bonus,
         score |-> score + points + rank_bonus]

InitScoring ==
    /\ NoRoom
    /\ \/ \E m \in Modes, a \in GivenTexts, c \in CorrectTexts :
             ev = [fn |-> "check_answer", done |-> FALSE, game_mode |-> m,
                   answer |-> a, correct_answer |-> c]
       \/ \E f \in Factors, t \in Times :
             ev = [fn |-> "calculate_score", done |-> FALSE, factor |-> f,
                   response_time |-> t]
       \/ \E s \in {0, 95}, n \in 0..3, m \in {"classique", "generation"},
             a \in {"2000", "1998", "abc"}, t \in {0, 5, 6, MaxTime} :
             ev = [fn |-> "submit_answer", done |-> FALSE, score |-> s,
                   correct_before |-> n, game_mode |-> m, answer |-> a,
                   correct_answer |-> "2000", response_time |-> t]

CheckAnswer ==
    /\ ev.fn = "check_answer" /\ ~ev.done
    /\ ev' = [fn |-> ev.fn, done |-> TRUE, game_mode |-> ev.game_mode,
              answer |-> ev.answer, correct_answer |-> ev.correct_answer,
              result |-> check_answer(ev.game_mode, ev.answer,
                                      ev.correct_answer)]
    /\ RoomUnchanged

CalculateScore ==
    /\ ev.fn = "calculate_score" /\ ~ev.done
    /\ ev' = [fn |-> ev.fn, done |-> TRUE, factor |-> ev.factor,
              response_time |-> ev.response_time,
              result |-> calculate_score(ev.factor, ev.response_time)]
    /\ RoomUnchanged

SubmitAnswer ==
    /\ ev.fn = "submit_answer" /\ ~ev.done
    /\ ev' = [fn |-> ev.fn, done |-> TRUE, score |-> ev.score,
              correct_before |-> ev.correct_before,
              game_mode |-> ev.game_mode, answer |-> ev.answer,
              correct_answer |-> ev.correct_answer,
              response_time |-> ev.response_time,
              result |-> submit_answer(ev.score, ev.correct_before,
                                       ev.game_mode, ev.answer,
                                       ev.correct_answer, ev.response_time)]
    /\ RoomUnchanged

NextScoring == CheckAnswer \/ CalculateScore \/ SubmitAnswer

SpecScoring == InitScoring /\ [][NextScoring]_vars

-----------------------------------------------------------------------------
(* QuestionGeneratorService._generate_year_question: one step per pass of  *)
(* the loop that draws the wrong years                                     *)

(* the offsets random.choice draws from *)
Offsets == {-10, -8, -7, -6, -5, -4, -3, -2, -1, 1, 2, 3, 4, 5, 6, 7, 8, 10}

(* while len(options) < 4 and attempts < 30 *)
OptionCount == 4
MaxAttempts == 30

(* details["release_date"][:4]: no release date, a date that does not      *)
(* start with a number, and the years at both ends of the accepted range   *)
ReleaseDates ==
    {"", "abc"} \cup
    {ToString(y) : y \in {MinYear - 1, MinYear, MaxYear, MaxYear + 1}}

InitYearQuestion ==
    /\ NoRoom
    /\ \E d \in ReleaseDates :
          ev = [fn |-> "year_question", pc |-> "begin", release_date |-> d,
                year |-> 0, options |-> EmptyBag, attempts |-> 0,
                result |-> "none"]

(* the checks before the loop; options = [str(year)] *)
YearQuestionBegin ==
    /\ ev.fn = "year_question" /\ ev.pc = "begin"
    /\ LET year == IntOf(ev.release_date) IN
         IF ev.release_date = "" \/ year < 0
         THEN ev' = [ev EXCEPT !.pc = "done"]
         ELSE IF year < MinYear \/ year > MaxYear
         THEN ev' = [ev EXCEPT !.pc = "done", !.year = year]
         ELSE ev' = [ev EXCEPT !.pc = "loop", !.year = year,
                               !.options = SetToBag({ToString(year)})]
    /\ RoomUnchanged

(* one pass of the loop: the options are a list that is shuffled before it *)
(* is returned, kept here as a bag                                         *)
YearQuestionAttempt ==
    /\ ev.fn = "year_question" /\ ev.pc = "loop"
    /\ BagCardinality(ev.options) < OptionCount /\ ev.attempts < MaxAttempts
    /\ \E offset \in Offsets :
          LET wrong_year == ev.year + offset IN
            ev' = [ev EXCEPT
                     !.options =
                        IF /\ ~BagIn(ToString(wrong_year), ev.options)
                           /\ MinYear <= wrong_year /\ wrong_year <= MaxYear
                        THEN ev.options (+) SetToBag({ToString(wrong_year)})
                        ELSE ev.options,
                     !.attempts = ev.attempts + 1]
    /\ RoomUnchanged

(* the loop is left and the question is returned *)
YearQuestionReturn ==
    /\ ev.fn = "year_question" /\ ev.pc = "loop"
    /\ ~(BagCardinality(ev.options) < OptionCount
         /\ ev.attempts < MaxAttempts)
    /\ ev' = [ev EXCEPT !.pc = "done", !.result = "question"]
    /\ RoomUnchanged

NextYearQuestion ==
    YearQuestionBegin \/ YearQuestionAttempt \/ YearQuestionReturn

SpecYearQuestion == InitYearQuestion /\ [][NextYearQuestion]_vars

-----------------------------------------------------------------------------
(* lyrics_service.create_lyrics_question.  A text is the sequence of its   *)
(* characters; the texts of the model are ASCII                            *)

(* str.lower() on one character *)
UpperToLower ==
    [A |-> "a", B |-> "b", C |-> "c", D |-> "d", E |-> "e", F |-> "f",
     G |-> "g", H |-> "h", I |-> "i", J |-> "j", K |-> "k", L |-> "l",
     M |-> "m", N |-> "n", O |-> "o", P |-> "p", Q |-> "q", R |-> "r",
     S |-> "s", T |-> "t", U |-> "u", V |-> "v", W |-> "w", X |-> "x",
     Y |-> "y", Z |-> "z"]

isupper(c) == c \in DOMAIN UpperToLower

IsLetter(c) == isupper(c) \/ \E u \in DOMAIN UpperToLower : UpperToLower[u] = c

lower(text) ==
    [i \in DOMAIN text |-> IF isupper(text[i]) THEN UpperToLower[text[i]]
                           ELSE text[i]]

(* the characters the pattern [^a-zA-ZÀ-ÿ'] leaves in a word *)
WordChar(c) == IsLetter(c) \/ c = "'"

(* the characters of the pattern [a-zA-ZÀ-ÿ' -] *)
PhraseChar(c) == WordChar(c) \/ c = " " \/ c = "-"

(* re.sub(r"[^a-zA-ZÀ-ÿ']", "", w).lower() *)
CleanWord(w) == lower(SelectSeq(w, WordChar))

(* re.sub(r"[^a-zA-ZÀ-ÿ' -]", "", w) *)
CleanPhraseWord(w) == SelectSeq(w, PhraseChar)

RECURSIVE JoinWith(_, _)
(* sep.join(texts) *)
JoinWith(sep, texts) ==
    IF texts = << >> THEN << >>
    ELSE IF Len(texts) = 1 THEN texts[1]
    ELSE texts[1] \o sep \o JoinWith(sep, Tail(texts))

Join(texts) == JoinWith(<<" ">>, texts)

BORING_WORDS ==
    {<<"i">>, <<"a">>, <<"t", "h", "e">>, <<"a", "n">>, <<"i", "s">>,
     <<"i", "t">>, <<"i", "n">>, <<"o", "n">>, <<"t", "o">>, <<"o", "f">>,
     <<"a", "n", "d">>, <<"o", "r">>, <<"m", "m", "m">>, <<"h", "m", "m">>,
     <<"a", "h">>, <<"u", "h">>}

(* len(line.strip()) > 15 *)
MinLineLength == 15

(* the words of the lyrics of the model: a stop word, a stop word after an *)
(* opening quote, a word followed by a comma and a capitalized word        *)
Vocabulary ==
    {<<"t", "h", "e">>, <<"'", "T", "h", "e">>, <<"l", "o", "v", "e", ",">>,
     <<"M", "o", "o", "n">>}

(* a line is the sequence of its words, one blank between two words *)
FirstLines == [1..LineWords -> Vocabulary]

SecondLine ==
    << <<"R", "a", "i", "n">>, <<"f", "a", "l", "l", "s">>,
       <<"d", "o", "w", "n">>, <<"s", "l", "o", "w">> >>

(* the words found in the titles of the other tracks *)
TrackWords ==
    {<< >>,
     << <<"D", "r", "e", "a", "m">>, <<"d", "r", "e", "a", "m">>,
        <<"S", "t", "o", "r", "m">>, <<"R", "i", "v", "e", "r">> >>}

(* the text of the lyrics: lines separated by a newline *)
LyricsText(lines) ==
    JoinWith(<<"\n">>, [i \in DOMAIN lines |-> Join(lines[i])])

RECURSIVE RunsFrom(_, _, _)
(* re.findall(r"[a-zA-ZÀ-ÿ' -]{1,}", text) from position i on, cur being   *)
(* the run read so far                                                     *)
RunsFrom(text, i, cur) ==
    LET closed == IF cur = << >> THEN << >> ELSE <<cur>> IN
      IF i > Len(text) THEN closed
      ELSE IF PhraseChar(text[i])
      THEN RunsFrom(text, i + 1, Append(cur, text[i]))
      ELSE closed \o RunsFrom(text, i + 1, << >>)

Interesting(seq) ==
    \A k \in DOMAIN seq :
       Len(CleanWord(seq[k])) >= 1 /\ CleanWord(seq[k]) \notin BORING_WORDS

(* the starts of the candidate sequences of a line (0-based in the code) *)
SequenceStarts(words, n) ==
    {s \in 1..(Len(words) - n + 1) : Interesting(SubSeq(words, s, s + n - 1))}

RECURSIVE PhrasesFrom(_, _, _, _)
(* the candidate phrases of n consecutive items of `items` from index i    *)
(* on; the phrases of the lyrics are lower-cased but for a capitalized     *)
(* first item, those of the other tracks are kept as they are              *)
PhrasesFrom(items, n, i, lyric) ==
    IF i > Len(items) - n + 1 THEN << >>
    ELSE LET seq == SubSeq(items, i, i + n - 1)
             shown == [k \in DOMAIN seq |->
                         IF ~lyric \/ (k = 1 /\ isupper(seq[k][1]))
                         THEN seq[k] ELSE lower(seq[k])]
         IN  (IF Interesting(seq) THEN <<Join(shown)>> ELSE << >>)
                \o PhrasesFrom(items, n, i + 1, lyric)

(* random.shuffle(list) when the shuffle is the permutation perm *)
Shuffled(list, perm) == [i \in DOMAIN list |-> list[perm[i]]]

Contains(list, x) == \E i \in DOMAIN list : list[i] = x

RECURSIVE TakeLyricPhrases(_, _, _)
(* for p in lyric_phrases: append unless it is the correct phrase; stop at *)
(* 6 wrong phrases                                                         *)
TakeLyricPhrases(list, correct, wrong) ==
    IF list = << >> THEN wrong
    ELSE LET w2 == IF lower(Head(list)) # lower(correct)
                   THEN Append(wrong, Head(list)) ELSE wrong
         IN  IF Len(w2) >= 6 THEN w2
             ELSE TakeLyricPhrases(Tail(list), correct, w2)

RECURSIVE TakeOtherPhrases(_, _, _)
(* for p in other_candidates: append unless correct or already taken; stop *)
(* at 10 wrong phrases                                                     *)
TakeOtherPhrases(list, correct, wrong) ==
    IF list = << >> THEN wrong
    ELSE LET w2 == IF /\ lower(Head(list)) # lower(correct)
                      /\ ~Contains(wrong, Head(list))
                   THEN Append(wrong, Head(list)) ELSE wrong
         IN  IF Len(w2) >= 10 THEN w2
             ELSE TakeOtherPhrases(Tail(list), correct, w2)

RECURSIVE UniqueWrong(_, _, _)
(* the first 3 wrong phrases that differ, case ignored, from the correct   *)
(* phrase and from one another                                             *)
UniqueWrong(list, seen, unique) ==
    IF list = << >> THEN unique
    ELSE LET low == lower(Head(list))
             u2 == IF low \notin seen THEN Append(unique, Head(list))
                   ELSE unique
         IN  IF Len(u2) >= 3 THEN u2
             ELSE UniqueWrong(Tail(list), seen \cup {low}, u2)

(* lines = [line.strip() for line in lyrics.split("\n") if ...] *)
LongLines(lines) ==
    SelectSeq(lines, LAMBDA l : Len(Join(l)) > MinLineLength)

InitLyrics ==
    /\ NoRoom
    /\ \E first \in FirstLines, more \in {<< >>, <<SecondLine>>},
          t \in TrackWords, n \in 1..2 :
          ev = [fn |-> "lyrics_question", pc |-> "begin",
                lyrics |-> <<first>> \o more, all_tracks_words |-> t,
                words_to_blank |-> n, lines |-> << >>,
                lyric_phrases |-> << >>, other_candidates |-> << >>,
                i |-> 1, blank |-> << >>, correct |-> << >>,
                options |-> << >>, result |-> "none"]

(* the lines that are long enough; the candidate phrases of the lyrics and *)
(* of the other tracks are the same for every line and are kept with them  *)
LyricsBegin ==
    /\ ev.fn = "lyrics_question" /\ ev.pc = "begin"
    /\ ev' = [ev EXCEPT
                !.pc = "line",
                !.lines = LongLines(ev.lyrics),
                !.lyric_phrases =
                    PhrasesFrom(RunsFrom(LyricsText(ev.lyrics), 1, << >>),
                                ev.words_to_blank, 1, TRUE),
                !.other_candidates =
                    PhrasesFrom(ev.all_tracks_words, ev.words_to_blank, 1,
                                FALSE)]
    /\ RoomUnchanged

(* the line at hand has too few words or no candidate sequence: continue *)
LyricsSkipLine ==
    /\ ev.fn = "lyrics_question" /\ ev.pc = "line"
    /\ ev.i <= Len(ev.lines)
    /\ \/ Len(ev.lines[ev.i]) < 2 + ev.words_to_blank
       \/ SequenceStarts(ev.lines[ev.i], ev.words_to_blank) = {}
    /\ ev' = [ev EXCEPT !.i = ev.i + 1]
    /\ RoomUnchanged

(* the question built on the sequence at `start` of the line at hand when  *)
(* the two shuffles are p1 and p2; no options: fewer than 3 wrong phrases  *)
QuestionOf(start, p1, p2) ==
    LET n == ev.words_to_blank
        original_seq == SubSeq(ev.lines[ev.i], start, start + n - 1)
        correct_phrase ==
            Join([k \in DOMAIN original_seq |->
                    CleanPhraseWord(original_seq[k])])
        wrong1 == TakeLyricPhrases(Shuffled(ev.lyric_phrases, p1),
                                   correct_phrase, << >>)
        wrong_phrases ==
            IF ev.all_tracks_words = << >> THEN wrong1
            ELSE TakeOtherPhrases(Shuffled(ev.other_candidates, p2),
                                  correct_phrase, wrong1)
        unique_wrong ==
            UniqueWrong(wrong_phrases, {lower(correct_phrase)}, << >>)
    IN  [blank |-> original_seq, correct |-> correct_phrase,
         options |-> IF Len(unique_wrong) < 3 THEN << >>
                     ELSE <<correct_phrase>> \o unique_wrong]

(* one sequence of the line is chosen and the wrong phrases are drawn: the *)
(* question is returned, or fewer than 3 wrong phrases are left: continue  *)
LyricsTryLine ==
    /\ ev.fn = "lyrics_question" /\ ev.pc = "line"
    /\ ev.i <= Len(ev.lines)
    /\ Len(ev.lines[ev.i]) >= 2 + ev.words_to_blank
    /\ \E start \in SequenceStarts(ev.lines[ev.i], ev.words_to_blank),
          p1 \in Permutations(DOMAIN ev.lyric_phrases),
          p2 \in Permutations(DOMAIN ev.other_candidates) :
          \E question \in {QuestionOf(start, p1, p2)} :
             IF question.options = << >>
             THEN ev' = [ev EXCEPT !.i = ev.i + 1]
             ELSE ev' = [ev EXCEPT !.pc = "done", !.result = "question",
                                   !.blank = question.blank,
                                   !.correct = question.correct,
                                   !.options = question.options]
    /\ RoomUnchanged

(* no line is left: return None *)
LyricsNone ==
    /\ ev.fn = "lyrics_question" /\ ev.pc = "line"
    /\ ev.i > Len(ev.lines)
    /\ ev' = [ev EXCEPT !.pc = "done"]
    /\ RoomUnchanged

NextLyrics == LyricsBegin \/ LyricsSkipLine \/ LyricsTryLine \/ LyricsNone

SpecLyrics == InitLyrics /\ [][NextLyrics]_vars

-----------------------------------------------------------------------------
(* The request data of GameViewSet.answer: the client-reported response    *)
(* time reaches submit_answer as float(request.data.get("response_time",   *)
(* 0)), the GameAnswer row stores it                                       *)

(* the response times a client can send, in whole seconds *)
ClientTimes == (-MaxTime)..MaxTime

RequestData ==
    {[has_time |-> FALSE, response_time |-> 0]}
       \cup {[has_time |-> TRUE, response_time |-> t] : t \in ClientTimes}

(* request.data.get("response_time", 0), then float() *)
ResponseTimeOf(data) == IF data.has_time THEN data.response_time ELSE 0

(* the GameAnswer row that submit_answer creates for the request data *)
GameAnswerOf(data, correct_before, game_mode, answer, correct_answer) ==
    LET t == ResponseTimeOf(data)
        res == check_answer(game_mode, answer, correct_answer)
        out == submit_answer(0, correct_before, game_mode, answer,
                             correct_answer, t)
    IN  [is_correct |-> out.is_correct,
         base_points |-> calculate_score(res[2], t),
         points_earned |-> out.points_earned,
         response_time |-> t]

InitAnswerData ==
    /\ NoRoom
    /\ \E d \in RequestData, n \in 0..3, m \in {"classique", "generation"},
          a \in {"2000", "1998", "abc"} :
          ev = [fn |-> "answer", done |-> FALSE, data |-> d,
                correct_before |-> n, game_mode |-> m, answer |-> a,
                correct_answer |-> "2000"]

AnswerData ==
    /\ ev.fn = "answer" /\ ~ev.done
    /\ ev' = [fn |-> ev.fn, done |-> TRUE, data |-> ev.data,
              correct_before |-> ev.correct_before,
              game_mode |-> ev.game_mode, answer |-> ev.answer,
              correct_answer |-> ev.correct_answer,
              row |-> GameAnswerOf(ev.data, ev.correct_before, ev.game_mode,
                                   ev.answer, ev.correct_answer)]
    /\ RoomUnchanged

NextAnswerData == AnswerData

SpecAnswerData == InitAnswerData /\ [][NextAnswerData]_vars

-----------------------------------------------------------------------------
(* GameConsumer.receive: a message of a client's websocket is routed by    *)
(* its 'type' to a handler that hands the client's data to group_send      *)

(* the 'type' of a client message: those receive routes, and another one   *)
ClientMessageTypes ==
    {"player_join", "player_answer", "start_game", "start_round",
     "end_round", "next_round", "finish_game", "other"}

(* the type of the message the subscribers get (broadcast_* handlers) *)
BroadcastOf(message_type) ==
    CASE message_type = "player_join" -> "player_joined"
      [] message_type = "player_answer" -> "player_answered"
      [] message_type = "start_game" -> "game_started"
      [] message_type = "start_round" -> "round_started"
      [] message_type = "end_round" -> "round_ended"
      [] message_type = "next_round" -> "next_round"
      [] message_type = "finish_game" -> "game_finished"
      [] OTHER -> "error"

(* the keys of the event a handler of receive builds *)
ClientEventKeys(message_type) ==
    CASE message_type = "player_join" -> {"player", "game_data"}
      [] message_type = "player_answer" -> {"player", "answered"}
      [] message_type = "start_game" -> {"game_data"}
      [] message_type \in {"start_round", "next_round"} -> {"round_data"}
      [] OTHER -> {"results"}

(* the round a client's round_data / results name: any round or none (0) *)
ClientRounds(message_type) ==
    IF message_type \in {"start_round", "end_round", "next_round"}
    THEN 0..MaxRounds ELSE {0}

(* user u, connected to the room's socket, sends a message; an unknown     *)
(* type is answered to the sender alone                                    *)
Receive(u, message_type) ==
    /\ CanIssue
    /\ budget' = budget - 1
    /\ IF BroadcastOf(message_type) = "error"
       THEN events' = events
       ELSE \E rn \in ClientRounds(message_type) :
              events' = Append(events,
                           [type |-> BroadcastOf(message_type), rn |-> rn,
                            keys |-> ClientEventKeys(message_type)])
    /\ last' = [NoResp EXCEPT !.kind = "receive", !.user = u,
                              !.err = IF BroadcastOf(message_type) = "error"
                                      THEN "unknown_type" ELSE ""]
    /\ UNCHANGED <<game, players, rounds, answers, reqs, clock, ev, users,
                   calls, faults>>

(* the request handlers and the messages of the sockets *)
NextSocket ==
    \/ NextSrc
    \/ \E u \in Callers, t \in ClientMessageTypes : Receive(u, t)

SpecSocket == Init /\ [][NextSocket]_vars

-----------------------------------------------------------------------------
(* answer requests (with their auto-end) and the host's next-round         *)
(* requests, which the host issues one after another                       *)
HostIsIdle == \A q \in InFlight : q.kind # "next_round"

NextAutoEnd ==
    \/ AnswerSteps
    \/ \E u \in Callers : HostIsIdle /\ NextRoundBegin(u)
    \/ \E q \in InFlight : NextRoundCurrent(q)
    \/ \E q \in InFlight : EndRoundSave(q)
    \/ \E q \in InFlight : NextRoundPublishEnd(q)
    \/ \E q \in InFlight : NextRoundNext(q)
    \/ \E q \in InFlight : FinishRead(q)
    \/ \E q \in InFlight : FinishCommit(q)
    \/ \E q \in InFlight : FinishPublish(q)
    \/ \E q \in InFlight : StartRound(q)
    \/ \E q \in InFlight : NextRoundPublish(q)

SpecAutoEnd == Init /\ [][NextAutoEnd]_vars

-----------------------------------------------------------------------------
(* The host's next-round requests on their own, one after another, on a    *)
(* room in progress: rounds 1..j-1 are ended, round j is active or has     *)
(* just been ended, the later rounds are pending                           *)
InitProgress ==
    /\ \E k \in 1..RoomCapacity, m \in RoomModes, n \in 1..MaxRounds,
          j \in 1..MaxRounds, active \in BOOLEAN :
          /\ j <= n
          /\ k >= MinPlayers(m)
          /\ players = [u \in 1..k |-> NewPlayer(u)]
          /\ game = [status |-> "in_progress", started_at |-> k + 1,
                     finished_at |-> 0, mode |-> m, playlist_id |-> TRUE,
                     num_rounds |-> MaxRounds]
          /\ rounds = [i \in 1..n |->
                CASE i < j -> [started_at |-> k + 2 * i - 1,
                               ended_at |-> k + 2 * i]
                  [] i = j -> [started_at |-> k + 2 * i - 1,
                               ended_at |-> IF active THEN 0 ELSE k + 2 * i]
                  [] OTHER -> NoRound]
          /\ clock = k + 2 * j - (IF active THEN 1 ELSE 0)
          /\ events = [i \in 1..(2 * j - (IF active THEN 1 ELSE 0)) |->
                LET type == CASE i = 1 -> "round_started"
                              [] i > 1 /\ i % 2 = 0 -> "round_ended"
                              [] OTHER -> "next_round"
                IN  [type |-> type, rn |-> (i + 1) \div 2,
                     keys |-> MessageKeys(type)]]
    /\ NoRequest
    /\ budget = MaxRounds /\ faults = 0

NextProgress ==
    \/ HostIsIdle /\ NextRoundBegin(Host)
    \/ \E q \in InFlight : NextRoundCurrent(q)
    \/ \E q \in InFlight : EndRoundSave(q)
    \/ \E q \in InFlight : NextRoundPublishEnd(q)
    \/ \E q \in InFlight : NextRoundNext(q)
    \/ \E q \in InFlight : FinishRead(q)
    \/ \E q \in InFlight : FinishCommit(q)
    \/ \E q \in InFlight : FinishPublish(q)
    \/ \E q \in InFlight : StartRound(q)
    \/ \E q \in InFlight : NextRoundPublish(q)

(* the host keeps issuing requests and the server runs every handler to    *)
(* its response                                                            *)
SpecProgress ==
    InitProgress /\ [][NextProgress]_vars /\ WF_vars(NextProgress)

-----------------------------------------------------------------------------
(* The payload of a round of a classique room: the question of             *)
(* _generate_guess_title_question / _generate_guess_artist_question, the   *)
(* GameRound row start_game builds from it, and its GameRoundSerializer    *)
(* representation, which is what round_started, next_round and the         *)
(* current-round query carry before the round is ended                     *)

NumTracks == 4

(* playlists of NumTracks tracks: every track with a title and an artist   *)
(* of its own, every track by one artist, every track with one title       *)
Playlists == {"plain", "same_artist", "same_title"}

TrackOf(playlist, i) ==
    [youtube_id |-> i,
     name |-> IF playlist = "same_title" THEN "title 1"
              ELSE "title " \o ToString(i),
     artists |-> IF playlist = "same_artist" THEN "artist 1"
                 ELSE "artist " \o ToString(i)]

(* the values _pick_wrong_answers (key "name") and the loop of             *)
(* _generate_guess_artist_question choose from: those of the other tracks  *)
(* that differ from the correct one                                        *)
WrongValues(playlist, c, key) ==
    {TrackOf(playlist, i)[key] : i \in (1..NumTracks) \ {c}}
       \ {TrackOf(playlist, c)[key]}

KeyOf(guess_target) == IF guess_target = "artist" THEN "artists" ELSE "name"

(* the lists random.shuffle can leave in options: the correct answer and   *)
(* three distinct wrong ones, in any order                                 *)
OptionLists(playlist, c, guess_target) ==
    LET key == KeyOf(guess_target)
        correct_answer == TrackOf(playlist, c)[key]
    IN  {o \in [1..4 -> WrongValues(playlist, c, key) \cup {correct_answer}] :
            /\ \A i, j \in 1..4 : i # j => o[i] # o[j]
            /\ \E i \in 1..4 : o[i] = correct_answer}

(* the question dict; generated only if three wrong answers exist *)
QuestionFor(playlist, c, guess_target, options) ==
    LET t == TrackOf(playlist, c) IN
    [track_id |-> t.youtube_id,
     track_name |-> t.name,
     artist_name |-> t.artists,
     question_type |-> IF guess_target = "artist" THEN "guess_artist"
                       ELSE "guess_title",
     correct_answer |-> t[KeyOf(guess_target)],
     options |-> options]

(* start_game, lines 640-668: the GameRound row of question q *)
RoundRowOf(q, answer_mode, guess_target) ==
    [round_number |-> 1,
     track_id |-> q.track_id,
     track_name |-> q.track_name,
     artist_name |-> q.artist_name,
     correct_answer |-> q.correct_answer,
     options |-> IF answer_mode = "text" THEN << >> ELSE q.options,
     question_type |-> q.question_type,
     extra_data |-> [round_mode |-> "classique",
                     answer_mode |-> answer_mode,
                     guess_target |-> guess_target,
                     artist_name |-> q.artist_name,
                     track_name |-> q.track_name],
     started_at |-> 1, ended_at |-> 0]

(* GameRoundSerializer(row).data: the fields of Meta.fields that the row   *)
(* of the model has                                                        *)
GameRoundSerializer(row) ==
    [f \in DOMAIN row \cap GameRoundSerializer_fields |-> row[f]]

(* two rounds of one room: their correct tracks a and b are drawn here,    *)
(* their option lists by the generator                                     *)
InitPayload ==
    /\ NoRoom
    /\ \E pl \in Playlists, target \in {"title", "artist"},
          mode \in {"mcq", "text"}, a, b \in 1..NumTracks :
          ev = [fn |-> "round_payload", done |-> FALSE, playlist |-> pl,
                guess_target |-> target, answer_mode |-> mode,
                a |-> a, b |-> b]

(* a track for which no question can be generated is skipped *)
PayloadNone ==
    /\ ev.fn = "round_payload" /\ ~ev.done
    /\ \E c \in {ev.a, ev.b} :
          OptionLists(ev.playlist, c, ev.guess_target) = {}
    /\ ev' = [fn |-> ev.fn, done |-> TRUE, generated |-> FALSE]
    /\ RoomUnchanged

PayloadOf(playlist, c, guess_target, answer_mode, options) ==
    LET row == RoundRowOf(QuestionFor(playlist, c, guess_target, options),
                          answer_mode, guess_target)
    IN  [track |-> TrackOf(playlist, c),
         correct_answer |-> row.correct_answer,
         question_options |-> options,
         payload |-> GameRoundSerializer(row)]

Payload ==
    /\ ev.fn = "round_payload" /\ ~ev.done
    /\ \E oa \in OptionLists(ev.playlist, ev.a, ev.guess_target),
          ob \in OptionLists(ev.playlist, ev.b, ev.guess_target) :
          ev' = [fn |-> ev.fn, done |-> TRUE, generated |-> TRUE,
                 guess_target |-> ev.guess_target,
                 a |-> PayloadOf(ev.playlist, ev.a, ev.guess_target,
                                 ev.answer_mode, oa),
                 b |-> PayloadOf(ev.playlist, ev.b, ev.guess_target,
                                 ev.answer_mode, ob)]
    /\ RoomUnchanged

NextPayload == Payload \/ PayloadNone

SpecPayload == InitPayload /\ [][NextPayload]_vars

-----------------------------------------------------------------------------
(* Properties *)

(* the step is taken by the in-flight request q *)
StepOf(q) == CopiesIn(q, reqs') < CopiesIn(q, reqs)

RowsOf(rn, u) == {i \in AnswersOf(rn) : answers[i].player = u}

EndedEvents(rn) ==
    {i \in DOMAIN events :
        events[i].type = "round_ended" /\ events[i].rn = rn}

(* C1: at most one Answer per (round, player) in every reachable state; an *)
(* accepted submission leaves exactly one Answer of its player and round,  *)
(* and a submission that finds the player's Answer already there (at the   *)
(* pre-check or at the insert) is rejected and leaves exactly one.         *)
C1_OneAnswerPerRoundAndPlayer ==
    /\ \A rn \in RoundNumbers, u \in Users : Cardinality(RowsOf(rn, u)) <= 1
    /\ \A i \in DOMAIN answers : answers[i].round \in RoundNumbers
    /\ (last.kind = "answer" /\ last.code = 201)
          => Cardinality(RowsOf(last.rn, last.user)) = 1
    /\ (last.kind = "answer" /\ last.dup)
          => last.code # 201 /\ Cardinality(RowsOf(last.rn, last.user)) = 1

(* two submissions of one player ran in parallel: the loser of the race    *)
(* was rejected at insert time and one Answer is persisted                 *)
C1_Witness ==
    /\ last.kind = "answer" /\ last.dup /\ last.err = "integrity_error"
    /\ Cardinality(RowsOf(last.rn, last.user)) = 1

(* C2: the correct Answers of a round, in the order they are persisted,    *)
(* carry rank bonus 10, 5, 2, 0, ...; no two Answers of a round carry the  *)
(* same non-zero rank bonus.                                               *)
C2_RankBonusByPersistOrder ==
    /\ \A i \in DOMAIN answers :
          LET before == {j \in CorrectAnswersOf(answers[i].round) : j < i} IN
            answers[i].rank_bonus =
               IF ~answers[i].is_correct THEN 0
               ELSE CASE Cardinality(before) = 0 -> 10
                      [] Cardinality(before) = 1 -> 5
                      [] Cardinality(before) = 2 -> 2
                      [] OTHER -> 0
    /\ \A i, j \in DOMAIN answers :
          (i # j /\ answers[i].round = answers[j].round
                 /\ answers[i].rank_bonus # 0)
            => answers[i].rank_bonus # answers[j].rank_bonus

(* C3: a room has at most one active Round (started_at set, ended_at null) *)
C3_AtMostOneActiveRound == Cardinality(ActiveRounds) <= 1

(* C4: a duplicate answer, found at the pre-check or at insert time, is    *)
(* answered with the state-error response (400) and leaves the scores and  *)
(* the Answers unchanged.                                                  *)
C4_DuplicateCleanlyRejected ==
    [][(last'.kind = "answer" /\ last'.dup)
         => (last'.code = 400 /\ answers' = answers /\ players' = players)]_vars

(* C5: an answer submission whose insert made the number of Answers of the *)
(* active round reach the player count has, when it returns, ended that    *)
(* round and published its round_ended event.                              *)
C5_AutoEndWhenAllAnswered ==
    (last.kind = "answer" /\ last.reached)
      => (rounds[last.rn].ended_at # 0 /\ EndedEvents(last.rn) # {})

(* C6: at most one round_ended event is published for each round *)
C6_SingleRoundEnded ==
    \A rn \in 1..MaxRounds : Cardinality(EndedEvents(rn)) <= 1

(* C7: the host's end-round request issued right after a successful        *)
(* end-round request, with nothing else in flight, returns success and     *)
(* changes no round and publishes nothing.                                 *)
C7_EndRoundIdempotent ==
    [][(/\ last.kind = "end_round" /\ last.code = 200
        /\ reqs = EmptyBag
        /\ last'.kind = "end_round" /\ last'.user = Host)
         => (last'.code = 200 /\ rounds' = rounds /\ events' = events)]_vars

(* C8: the status of a room changes only along waiting -> in_progress,     *)
(* in_progress -> finished and waiting -> cancelled.                       *)
C8_StatusTransitions ==
    [][game'.status # game.status
         => <<game.status, game'.status>> \in
               {<<"waiting", "in_progress">>, <<"in_progress", "finished">>,
                <<"waiting", "cancelled">>}]_vars

C10_MinPlayers ==
    /\ []((/\ last.kind = "start" /\ last.user = Host
           /\ last.seen_status = "waiting")
          => (last.err = "insufficient_players"
                <=> last.cnt < (IF game.mode = "karaoke" THEN 1 ELSE 2)))
    /\ [][last'.err = "insufficient_players"
            => (game' = game /\ rounds' = rounds)]_vars

(* a classique room with the host alone was refused and is still waiting *)
C10_Witness ==
    /\ last.kind = "start" /\ last.err = "insufficient_players"
    /\ game.mode = "classique" /\ PlayerCount = 1
    /\ game.status = "waiting" /\ rounds = << >>

(* a karaoke room with the host alone has started *)
C10_KaraokeSoloStarted ==
    /\ last.kind = "start" /\ last.code = 200 /\ last.cnt = 1
    /\ game.mode = "karaoke" /\ game.status = "in_progress"

(* C11: a start request of the host on a waiting room with enough players  *)
(* fails with the missing-source error exactly when the room is not a      *)
(* karaoke room and has no playlist; a karaoke room never gets that error. *)
C11_MissingSource ==
    (/\ last.kind = "start" /\ last.user = Host
     /\ last.seen_status = "waiting"
     /\ last.cnt >= (IF game.mode = "karaoke" THEN 1 ELSE 2))
      => (last.err = "missing_playlist"
            <=> (game.mode # "karaoke" /\ ~game.playlist_id))

(* C12: in a finished room the ranks of the N players are a permutation of *)
(* 1..N and a strictly higher score has a strictly smaller rank.           *)
C12_RanksArePermutation ==
    game.status = "finished"
      => /\ {players[u].rank : u \in DOMAIN players} = 1..PlayerCount
         /\ \A u, v \in DOMAIN players :
               players[u].score > players[v].score
                 => players[u].rank < players[v].rank

(* C13: in a finished room, of two players with equal score the one who    *)
(* joined earlier has the smaller rank.                                    *)
C13_TiesByJoinTime ==
    game.status = "finished"
      => \A u, v \in DOMAIN players :
            (/\ players[u].score = players[v].score
             /\ players[u].joined_at < players[v].joined_at)
              => players[u].rank < players[v].rank

(* C14: check_and_award is called at most once for every user over the     *)
(* life of the room, every player of a finished room has had its call, and *)
(* the per-player statistics of finish are applied at most once.           *)
C14_AchievementsOnce ==
    /\ \A u \in Users :
          calls[u] <= 1 /\ users[u].total_games_played <= 1
    /\ game.status = "finished"
          => \A u \in DOMAIN players : calls[u] = 1

(* C15: a finish of a room in progress during which check_and_award       *)
(* raised leaves the room finished, with finished_at set and a rank on     *)
(* every player.                                                           *)
C15_AchievementFailureKeepsRanking ==
    (last.err = "achievement_error" /\ last.seen_status = "in_progress")
      => /\ game.status = "finished" /\ game.finished_at # 0
         /\ \A u \in DOMAIN players : players[u].rank # 0

(* C16: a start, answer, end-round or next-round request during which a    *)
(* broadcast raised reports success.                                       *)
C16_BroadcastFailureSwallowed ==
    (/\ last.pub_failed
     /\ last.kind \in {"start", "answer", "end_round", "next_round"})
      => last.code \in {200, 201}

(* C17: the round_started and next_round messages and the current-round    *)
(* response carry no correct_answer key, and a message or response that    *)
(* carries the correct answer of a round comes after (or is) the           *)
(* round_ended message of that round.                                      *)
C17_NoAnswerBeforeRoundEnd ==
    /\ \A i \in DOMAIN events :
          events[i].type \in {"round_started", "next_round"}
            => "correct_answer" \notin events[i].keys
    /\ last.kind = "current_round" => "correct_answer" \notin last.keys
    /\ "correct_answer" \in last.keys
          => \A rn \in (last.shown \cup {last.rn}) \ {0} :
                EndedEvents(rn) # {}

(* C18: the round numbers of the room are exactly 1..n, n is at most the   *)
(* configured round count, and Rounds are created once.                    *)
C18_RoundNumbersContiguous ==
    /\ [](/\ RoundNumbers = 1..Cardinality(RoundNumbers)
          /\ Cardinality(RoundNumbers) <= game.num_rounds)
    /\ [][RoundNumbers # {} => RoundNumbers' = RoundNumbers]_vars

(* C19: the number of Players of the room never exceeds its capacity, and  *)
(* a join answered with the room-full error has created no Player.         *)
C19_CapacityRespected ==
    /\ [](PlayerCount <= RoomCapacity)
    /\ [][(last'.kind = "join" /\ last'.err = "full")
            => players' = players]_vars

(* C20: Player rows are only ever added, one per step, by a join of a user *)
(* who has none; a join of a user who has a Player is rejected and changes *)
(* no Player; a connect (disconnect) adds and removes no Player and        *)
(* changes nothing but the connected flag of its user's Player, which it   *)
(* sets to true (false).                                                   *)
C20_OnePlayerPerUser ==
    /\ [][DOMAIN players' # DOMAIN players
            => /\ last'.kind = "join" /\ last'.code \in {201, 500}
               /\ last'.user \notin DOMAIN players
               /\ DOMAIN players' = DOMAIN players \cup {last'.user}]_vars
    /\ [][(last'.kind = "join" /\ last'.user \in DOMAIN players)
            => (last'.code \in {400, 500} /\ players' = players)]_vars
    /\ [][last'.kind \in {"connect", "disconnect"}
            => /\ DOMAIN players' = DOMAIN players
               /\ \A u \in DOMAIN players :
                     players'[u] =
                        IF u = last'.user
                        THEN [players[u] EXCEPT
                                !.is_connected = (last'.kind = "connect")]
                        ELSE players[u]]_vars

(* a player has reconnected after a disconnect and its one row is          *)
(* connected again                                                         *)
C20_Witness ==
    /\ last.kind = "connect" /\ last.user \in DOMAIN players
    /\ players[last.user].is_connected
    /\ \E i \in DOMAIN events : events[i].type = "player_left"

(* the requests in flight have all read the Game row of a Cancelled room   *)
(* (the answer handler never looks at the status it has read)              *)
OnCancelledRoom ==
    /\ game.status = "cancelled"
    /\ \A q \in InFlight : q.kind = "answer" \/ q.g.status = "cancelled"

(* C21: on a Cancelled room every start, answer, end-round and next-round  *)
(* request is answered with an error, the status stays Cancelled and no    *)
(* Round, Answer, score or rank is created or modified                     *)
C21_CancelledShortCircuits ==
    /\ [][OnCancelledRoom =>
            /\ game'.status = "cancelled"
            /\ rounds' = rounds
            /\ answers' = answers
            /\ DOMAIN players' = DOMAIN players
            /\ \A u \in DOMAIN players :
                  /\ players'[u].score = players[u].score
                  /\ players'[u].rank = players[u].rank]_vars
    /\ [][(/\ OnCancelledRoom
           /\ last'.kind \in {"start", "answer", "end_round", "next_round"}
           /\ last'.code # 0)
          => last'.code >= 400]_vars

(* the points of the specification for accuracy factor f (hundredths),     *)
(* whole response time t and rank bonus b                                  *)
SpecifiedPoints(f, t, b) ==
    IF f <= 0 THEN 0
    ELSE LET base == IF 100 - 3 * t >= 10 THEN 100 - 3 * t ELSE 10
             scaled == (base * f) \div 100
         IN  (IF scaled >= 5 THEN scaled ELSE 5) + b

YearGuessOf(g, c) ==
    /\ ev.fn = "check_answer" /\ ev.done /\ ev.game_mode = "generation"
    /\ ev.answer = ToString(g) /\ ev.correct_answer = ToString(c)

(* C23: in Year-guess mode |g - c| = 0 gives (correct, 1.0), 1..2 gives    *)
(* (correct, 0.75), 3..5 gives (correct, 0.4) and 6 or more gives          *)
(* (incorrect, 0.0); a non-numeric answer is incorrect with factor 0       *)
C23_YearBands ==
    /\ \A g \in Years, c \in CorrectYears :
          YearGuessOf(g, c) =>
             LET d == IF g >= c THEN g - c ELSE c - g IN
               /\ d = 0 => ev.result = <<TRUE, 100>>
               /\ d \in 1..2 => ev.result = <<TRUE, 75>>
               /\ d \in 3..5 => ev.result = <<TRUE, 40>>
               /\ d >= 6 => ev.result = <<FALSE, 0>>
    /\ (/\ ev.fn = "check_answer" /\ ev.done /\ ev.game_mode = "generation"
        /\ ev.answer \in {"abc", ""})
          => ev.result = <<FALSE, 0>>

(* a guess two years off has been evaluated: correct, factor 0.75 *)
C23_Witness ==
    /\ YearGuessOf(1998, 2000)
    /\ ev.result = <<TRUE, 75>>

(* C24: with answer-mode MCQ, in every game mode an answer is correct if   *)
(* and only if it is string-equal to the round's correct answer, with      *)
(* factor 1.0 when equal and 0.0 otherwise (so at most one option of a     *)
(* round is scored as correct)                                             *)
C24_McqExactEquality ==
    (ev.fn = "check_answer" /\ ev.done)
       => ev.result = IF ev.answer = ev.correct_answer
                      THEN <<TRUE, 100>> ELSE <<FALSE, 0>>

(* C25: every Year-guess question that is generated has exactly 4          *)
(* pairwise-distinct options, the correct year and 3 wrong years, all in   *)
(* [1950, 2030]; the loop stops after at most 30 attempts; a track whose   *)
(* year is outside [1950, 2030] yields no question                         *)
C25_YearOptions ==
    (ev.fn = "year_question" /\ ev.pc = "done") =>
       /\ ev.attempts <= 30
       /\ ev.result = "question" =>
             /\ ev.year \in 1950..2030
             /\ BagCardinality(ev.options) = 4
             /\ Cardinality(BagToSet(ev.options)) = 4
             /\ ToString(ev.year) \in BagToSet(ev.options)
             /\ \A o \in BagToSet(ev.options) :
                   \E y \in 1950..2030 : o = ToString(y)
       /\ (ev.year # 0 /\ ev.year \notin 1950..2030) => ev.result = "none"

(* a word with its punctuation stripped, in lower case *)
Stripped(w) == lower(SelectSeq(w, IsLetter))

(* C26: every lyrics question that is produced blanks a contiguous word    *)
(* sequence none of whose words, punctuation stripped and lower-cased, is  *)
(* in the stop-list, and has exactly 4 options, pairwise distinct case     *)
(* ignored, the correct phrase among them (so no question is produced when *)
(* fewer than 3 distinct wrong phrases are found)                          *)
C26_LyricsQuestion ==
    (ev.fn = "lyrics_question" /\ ev.pc = "done" /\ ev.result = "question")
       => /\ Len(ev.blank) = ev.words_to_blank
          /\ \A k \in DOMAIN ev.blank : Stripped(ev.blank[k]) \notin BORING_WORDS
          /\ Len(ev.options) = 4
          /\ \A i, j \in DOMAIN ev.options :
                i # j => lower(ev.options[i]) # lower(ev.options[j])
          /\ \E i \in DOMAIN ev.options : ev.options[i] = ev.correct

(* C27: a newly created room is Waiting with no Rounds; every newly        *)
(* created Player, the host's included, has score 0 and a null rank;       *)
(* adding a player increases the player count by exactly one               *)
C27_NewRoomAndPlayers ==
    /\ [][(game = NoGame /\ game' # NoGame)
            => /\ game'.status = "waiting"
               /\ rounds' = << >>
               /\ DOMAIN players' = {Host}]_vars
    /\ [][\A u \in DOMAIN players' \ DOMAIN players :
            players'[u].score = 0 /\ players'[u].rank = 0]_vars
    /\ [][DOMAIN players' # DOMAIN players
            => /\ DOMAIN players \subseteq DOMAIN players'
               /\ Cardinality(DOMAIN players')
                     = Cardinality(DOMAIN players) + 1]_vars

(* a second player has joined the room the host created *)
C27_Witness ==
    /\ last.kind = "join" /\ last.code = 201
    /\ PlayerCount = 2
    /\ \A u \in DOMAIN players : players[u].score = 0 /\ players[u].rank = 0

(* C28: each Round moves only along Pending -> Started -> Ended: ended_at  *)
(* is set only on a round whose started_at is set, and once ended_at is    *)
(* set it is never cleared and the round is never started again, under any *)
(* interleaving of next-round, end-round and answer requests               *)
C28_RoundLifecycle ==
    /\ [](\A n \in RoundNumbers :
            rounds[n].ended_at # 0 => rounds[n].started_at # 0)
    /\ [][\A n \in RoundNumbers \cap DOMAIN rounds' :
            rounds[n].ended_at # 0
               => /\ rounds'[n].ended_at # 0
                  /\ rounds'[n].started_at = rounds[n].started_at]_vars

(* C29: every Answer is created for a Round that is active (started_at     *)
(* set, ended_at null) at the moment of insertion: an answer request when  *)
(* no round is active, or one that races with the end of its round,        *)
(* creates no Answer and changes no score                                  *)
C29_AnswerOnlyWhileActive ==
    /\ [][Len(answers') > Len(answers)
            => IsActive(rounds[answers'[Len(answers')].round])]_vars
    /\ [][(last'.kind = "answer" /\ last'.err = "no_active_round")
            => (answers' = answers /\ players' = players)]_vars

(* C30: rounds are started strictly in ascending round_number order: every *)
(* round start stamps the lowest-numbered Pending round, the rounds that   *)
(* are started were started in the order of their numbers, and no round is *)
(* Started while a lower-numbered round is still Pending                   *)
C30_StartedInOrder ==
    /\ [](\A m, n \in RoundNumbers :
            (m < n /\ rounds[n].started_at # 0)
               => /\ rounds[m].started_at # 0
                  /\ rounds[m].started_at < rounds[n].started_at)
    /\ [][\A n \in RoundNumbers \cap DOMAIN rounds' :
            rounds'[n].started_at # rounds[n].started_at
               => n = get_next_round]_vars

-----------------------------------------------------------------------------
(* C31: a room in status waiting has no round and no started_at, and a     *)
(* step that answers a start request with a failure of its precondition    *)
(* checks, of the question generation or of the creation of the rounds     *)
(* leaves the Game row and the GameRound rows as they were                 *)
StartFailures ==
    {"not_host", "insufficient_players", "missing_playlist", "not_waiting",
     "generation_failed", "integrity_error", "database_error"}

C31_FailedStartPersistsNothing ==
    [][/\ (game'.status = "waiting"
              => rounds' = << >> /\ game'.started_at = 0)
       /\ (last'.kind = "start" /\ last'.err \in StartFailures
              => rounds' = rounds /\ game' = game)]_vars

(* the creation of the rounds of a waiting room has raised *)
C31_Witness ==
    /\ last.kind = "start" /\ last.err = "database_error"
    /\ game.status = "waiting" /\ rounds = << >>
    /\ game.num_rounds > 1

-----------------------------------------------------------------------------
(* C32: the GameAnswer row created for a submission has a response time    *)
(* >= 0, base points of at most 100 and at most 210 points, whatever       *)
(* response time the client reported                                       *)
C32_ResponseTimeNotNegative ==
    (ev.fn = "answer" /\ ev.done)
       => /\ ev.row.response_time >= 0
          /\ ev.row.base_points <= 100
          /\ ev.row.points_earned <= 210

-----------------------------------------------------------------------------
(* C33: the score of every player is the sum of points_earned over the     *)
(* Answers of that player, hence >= 0                                      *)
RECURSIVE SumOfPoints(_, _)
SumOfPoints(rows, u) ==
    IF rows = << >> THEN 0
    ELSE (IF Head(rows).player = u THEN Head(rows).points_earned ELSE 0)
            + SumOfPoints(Tail(rows), u)

C33_ScoreIsSumOfPoints ==
    \A u \in DOMAIN players :
       /\ players[u].score = SumOfPoints(answers, u)
       /\ players[u].score >= 0

-----------------------------------------------------------------------------
(* C34: a round_started, round_ended, next_round or game_finished message  *)
(* is published by a step of the request handler that made the transition  *)
(* it reports, never by the step that receives a client's message          *)
TransitionEvents ==
    {"round_started", "round_ended", "next_round", "game_finished"}

C34_EventsFromTransitions ==
    [][(Len(events') = Len(events) + 1
          /\ events'[Len(events')].type \in TransitionEvents)
         => /\ last'.kind # "receive"
            /\ \E q \in InFlight :
                  q.pc \in {"publish", "publish_end", "publish_finish",
                            "publish_next"}]_vars

-----------------------------------------------------------------------------
(* C35: events are published in round order: the next_round event of round *)
(* k + 1 comes after the round_ended event of round k, and game_finished   *)
(* comes after the round_ended event of every round that has one and       *)
(* after that of the last round                                            *)
EndedBefore(rn, i) == \E j \in EndedEvents(rn) : j < i

C35_EventsInRoundOrder ==
    \A i \in DOMAIN events :
       /\ (events[i].type = "next_round" /\ events[i].rn > 1)
             => EndedBefore(events[i].rn - 1, i)
       /\ events[i].type = "game_finished"
             => /\ \A rn \in RoundNumbers : \A j \in EndedEvents(rn) : j < i
                /\ RoundNumbers # {} => EndedBefore(Len(rounds), i)

-----------------------------------------------------------------------------
(* C36: no step taken while the room is in progress adds or removes a      *)
(* GamePlayer row, so the player count of the auto-end comparison is the   *)
(* same throughout a round                                                 *)
C36_RosterFixedOnceStarted ==
    [][game.status = "in_progress" => DOMAIN players' = DOMAIN players]_vars

-----------------------------------------------------------------------------
(* C37: the step that records an Answer adds one GameAnswer row and changes *)
(* the score of the submitting player only: every other column of every    *)
(* GamePlayer row (is_connected, rank, joined_at) keeps the value it had,  *)
(* the one a disconnect has just written included                          *)
C37_AnswerWritesScoreOnly ==
    [][Len(answers') = Len(answers) + 1
         => /\ DOMAIN players' = DOMAIN players
            /\ \A u \in DOMAIN players :
                  players'[u] =
                     IF u = answers'[Len(answers')].player
                     THEN [players[u] EXCEPT !.score = players'[u].score]
                     ELSE players[u]]_vars

-----------------------------------------------------------------------------
(* C38: when the host issues next-round requests one after another on a    *)
(* room in progress with n rounds, every request succeeds and either       *)
(* leaves the lowest-numbered pending round as the only active one, every  *)
(* round before it ended, or leaves the room finished with every round     *)
(* ended; the room becomes finished with at most n requests, and it does   *)
(* become finished                                                         *)
AllRoundsEnded == \A n \in RoundNumbers : rounds[n].ended_at # 0

C38_Progress ==
    /\ [][/\ last'.kind = "next_round"
               => /\ last'.code = 200
                  /\ IF last'.err = "finished"
                     THEN game'.status = "finished" /\ AllRoundsEnded'
                     ELSE /\ ActiveRounds' = {last'.rn}
                          /\ \A n \in RoundNumbers :
                                /\ n < last'.rn => rounds'[n].ended_at # 0
                                /\ n > last'.rn => rounds'[n].started_at = 0
          /\ (game.status # "finished" /\ game'.status = "finished")
               => MaxRounds - budget' <= Len(rounds)]_vars
    /\ <>(game.status = "finished" /\ AllRoundsEnded)

(* a room of MaxRounds rounds finished by the host's MaxRounds-th request *)
C38_Witness ==
    /\ last.kind = "next_round" /\ last.err = "finished"
    /\ game.status = "finished" /\ AllRoundsEnded
    /\ Len(rounds) = MaxRounds /\ budget = 0

-----------------------------------------------------------------------------
(* C39: in the payload of a title-guess or artist-guess round that is not  *)
(* ended, neither track_name, artist_name nor a value of extra_data is the *)
(* round's correct answer; and two rounds with the same options whose      *)
(* tracks differ in the guessed attribute only have payloads that differ   *)
(* in nothing but the audio they point to                                  *)
Reveals(r) ==
    \/ r.payload.track_name = r.correct_answer
    \/ r.payload.artist_name = r.correct_answer
    \/ \E k \in DOMAIN r.payload.extra_data :
          r.payload.extra_data[k] = r.correct_answer

DifferOnlyInAnswer(a, b, guess_target) ==
    /\ a.question_options = b.question_options
    /\ IF guess_target = "artist" THEN a.track.name = b.track.name
       ELSE a.track.artists = b.track.artists

Visible(payload) ==
    [f \in DOMAIN payload \ {"track_id"} |-> payload[f]]

C39_PayloadHidesAnswer ==
    (ev.fn = "round_payload" /\ ev.done /\ ev.generated)
       => /\ ~Reveals(ev.a)
          /\ ~Reveals(ev.b)
          /\ DifferOnlyInAnswer(ev.a, ev.b, ev.guess_target)
                => Visible(ev.a.payload) = Visible(ev.b.payload)

====
